---- MODULE Spec2Model ----
(***************************************************************************)
(* Model of the hydroform function manager (manager.Do and its helpers)    *)
(* and of the triggers operator (triggersOperator.Apply / Delete).         *)
(***************************************************************************)
EXTENDS Integers, Sequences, FiniteSets, TLC

\* ---------------------------------------------------------------- bounds
MaxParents == 2     \* entries of the forest
MaxChildren == 2    \* children of one parent
MaxItems == 2       \* items one Apply reports to its Post callbacks
MaxOperators == 3   \* operator occurrences of the forest, parents and children

\* ------------------------------------------------------------- vocabulary
NilOp == "nilOp"
NoError == "nil"
ErrParse == "can't parse interface{} to StatusEntry interface"
ErrRemote == "remoteErr"
ErrCallback == "callbackErr"
ErrOperator == "operatorErr"
ErrDelete == "deleteErr"

StopOnError == "StopOnError"
PurgeOnError == "PurgeOnError"
DryRunAll == "All"
DeletePropagationForeground == "Foreground"

StatusTypeApplied == "applied"
StatusTypeApplyFailed == "applyFailed"
StatusTypeDeleted == "deleted"
StatusTypeDeleteFailed == "deleteFailed"

ParentOps == {"a", "b", NilOp}
ChildOps == {"b", NilOp}

SeqsUpTo(S, n) == UNION {[1..k -> S] : k \in 0..n}

FnIdent == [apiVersion |-> "serverless/v1alpha1", kind |-> "Function", name |-> "f", uid |-> "u1"]
SubIdent == [apiVersion |-> "eventing/v1alpha1", kind |-> "Subscription", name |-> "a", uid |-> "u2"]

PostStatusEntry(st, id) == [isEntry |-> TRUE, StatusType |-> st, id |-> id]
NotAnEntry == [isEntry |-> FALSE, StatusType |-> "", id |-> FnIdent]

\* what an operator may hand to its Post callbacks for one item
Reports ==
    { [v |-> PostStatusEntry(StatusTypeApplied, FnIdent), err |-> NoError],
      [v |-> PostStatusEntry(StatusTypeApplied, SubIdent), err |-> NoError],
      [v |-> PostStatusEntry(StatusTypeApplyFailed, FnIdent), err |-> NoError],
      [v |-> PostStatusEntry(StatusTypeDeleteFailed, SubIdent), err |-> NoError],
      [v |-> PostStatusEntry(StatusTypeApplied, SubIdent), err |-> ErrRemote],
      [v |-> NotAnEntry, err |-> NoError] }

\* a report of an item that was applied: no error, no failed status
IsApplied(r) ==
    /\ r.v.isEntry
    /\ r.err = NoError
    /\ r.v.StatusType \notin {StatusTypeApplyFailed, StatusTypeDeleteFailed}

\* caller supplied Post chains: none, or a callback that rejects every item
PostChains == { <<>>, <<"cbFail">> }

OptionsSet ==
    [ DryRun : BOOLEAN,
      SetOwnerReferences : BOOLEAN,
      OnError : {StopOnError, PurgeOnError},
      Callbacks : [Pre : {<<>>}, Post : PostChains] ]

NoOptions ==
    [ DryRun |-> FALSE, SetOwnerReferences |-> FALSE, OnError |-> StopOnError,
      Callbacks |-> [Pre |-> <<>>, Post |-> <<>>] ]

NoCall == [kind |-> "none"]

\* triggers: names, labels, inherited references
MaxTrigItems == 2   \* items of the triggers operator
MaxRefs == 2        \* inherited owner references of one Apply
Names == {"t1", "t2"}
Absent == "absent"
message == "ownerID"
ErrNotFound == "ownerID: not found"
NilMap == << >>
Fn2Ident == [apiVersion |-> "serverless/v1alpha1", kind |-> "Function", name |-> "g", uid |-> "u9"]
RefSet == {FnIdent, Fn2Ident, SubIdent}
OwnerIDs == {"u1", "u9"}

NoTrigOptions ==
    [ OwnerReferences |-> <<>>, DryRun |-> <<>>,
      Callbacks |-> [Pre |-> <<>>, Post |-> <<>>] ]

\* ------------------------------------------------------------------ state
VARIABLES
    forest,        \* manager.operators: parent -> sequence of children
    options,       \* the Options of the running Do call
    pc,            \* position of Do: idle, walk, applying, children, purge, done
    visited,       \* parents already taken by the range loop of manageOperators
    cur,           \* parent of the entry being processed
    childIdx,      \* index of the next child of cur
    references,    \* references returned by useOperator for cur
    parentGood,    \* identities of the items cur reported as applied, in order
    parentN,       \* number of items cur reported to its Post callbacks
    role,          \* "parent" or "child": who is being applied
    call,          \* arguments of the latest Apply / Delete call
    newRefs,       \* useOperator's accumulator of the running Apply
    nReported,     \* number of items the running Apply has reported
    log,           \* calls and returns of the running Do call, in order
    result,        \* what Do returned
    pendingErr,    \* err held by Do while purgeParents runs
    purgePending,  \* parents the range loop of purgeParents has not taken
    ctxDone,       \* the ctx handed to Do is cancelled or past its deadline
    ctxAtFail      \* ctxDone at the moment Do entered purgeParents

\* the triggers operator
VARIABLES
    tItems,        \* triggersOperator.items
    remote,        \* the remote store: trigger name -> its ownerID label, or Absent
    tOpts,         \* the ApplyOptions / DeleteOptions of the running call
    tOp,           \* the running call: Apply or Delete
    tpc,           \* position of Apply / Delete
    tIdx,          \* index of the range loop over t.items
    ownerID,       \* result of findOwnerID
    listed,        \* the triggers the list call of wipeRemoved returned
    wipeQueue,     \* listed triggers wipeRemoved has not yet looked at
    tRefs,         \* accumulator of an ownerRef callback in the Post chain
    tLog,          \* remote calls and callbacks of the running call, in order
    tResult,       \* what Apply / Delete returned
    loopU          \* u, the range loop's copy of the item it has taken

mvars == << forest, options, pc, visited, cur, childIdx, references,
            parentGood, parentN, role, call, newRefs, nReported, log, result,
            pendingErr, purgePending, ctxDone, ctxAtFail >>

tvars == << tItems, remote, tOpts, tOp, tpc, tIdx, ownerID, listed, wipeQueue,
            tRefs, tLog, tResult, loopU >>

vars == << mvars, tvars >>

\* ---------------------------------------------------------- pure helpers
\* an entry of log: a call of Apply (idx 0: the parent, idx k: its k-th child),
\* the return of the Apply call before it, or a call of Delete with its answer
Event(ev, op, parent, idx, e) ==
    [ev |-> ev, op |-> op, parent |-> parent, idx |-> idx, err |-> e]

LastApply == log[Len(log)]

\* getDryRunFlag that never sets the marker
getDryRunFlagAlwaysEmpty(dryRun) == <<>>

getDryRunFlag(dryRun) == IF dryRun THEN <<DryRunAll>> ELSE <<>>

OwnerReference(entry) ==
    [ apiVersion |-> entry.id.apiVersion, kind |-> entry.id.kind,
      name |-> entry.id.name, uid |-> entry.id.uid ]


\* the closure without its check of the status kind
ownerReferenceClosureNoStatusCheck(v, err, list) ==
    IF ~v.isEntry
    THEN [err |-> ErrParse, list |-> list]
    ELSE IF err = NoError
         THEN [err |-> err, list |-> Append(list, OwnerReference(v))]
         ELSE [err |-> err, list |-> list]

\* the closure recording every status entry and reporting success
ownerReferenceClosureHarvestsAll(v, err, list) ==
    IF ~v.isEntry
    THEN [err |-> ErrParse, list |-> list]
    ELSE [err |-> NoError, list |-> Append(list, OwnerReference(v))]

\* the closure without its type assertion
ownerReferenceClosureNoTypeCheck(v, err, list) ==
    IF /\ err = NoError
       /\ v.StatusType # StatusTypeApplyFailed
       /\ v.StatusType # StatusTypeDeleteFailed
    THEN [err |-> err, list |-> Append(list, OwnerReference(v))]
    ELSE [err |-> err, list |-> list]

\* the closure built by manager.ownerReferenceCallback
ownerReferenceClosure(v, err, list) ==
    IF ~v.isEntry
    THEN [err |-> ErrParse, list |-> list]
    ELSE IF /\ err = NoError
            /\ v.StatusType # StatusTypeApplyFailed
            /\ v.StatusType # StatusTypeDeleteFailed
         THEN [err |-> err, list |-> Append(list, OwnerReference(v))]
         ELSE [err |-> err, list |-> list]

\* manager.ownerReferenceCallback: the caller's chain with the closure appended
ownerReferenceCallback(callbacks) ==
    [callbacks EXCEPT !.Post = Append(callbacks.Post, "ownerRef")]

\* one callback of a chain
callCallback(cb, v, err, list) ==
    IF cb = "ownerRef" THEN ownerReferenceClosure(v, err, list)
    ELSE IF cb = "cbFail" THEN [err |-> ErrCallback, list |-> list]
    ELSE [err |-> NoError, list |-> list]

\* fireCallbacks: run the chain in order, stop at the first callback error,
\* otherwise hand back the error of the underlying operation
RECURSIVE fireCallbacks(_, _, _, _)
fireCallbacks(v, err, cbs, list) ==
    IF cbs = <<>>
    THEN [err |-> err, list |-> list]
    ELSE LET r == callCallback(Head(cbs), v, err, list)
         IN  IF r.err # NoError
             THEN r
             ELSE fireCallbacks(v, err, Tail(cbs), r.list)


\* useOperator adding the harvesting callback whatever SetOwnerReferences says
applyOptionsAlwaysHarvest(opts, refs) ==
    [ kind |-> "Apply",
      OwnerReferences |-> refs,
      DryRun |-> getDryRunFlag(opts.DryRun),
      Callbacks |-> ownerReferenceCallback(opts.Callbacks),
      ctx |-> "ctx" ]

\* the ApplyOptions useOperator builds, and the ctx it hands to Apply with
\* them: the ctx of Do
applyOptions(opts, refs) ==
    [ kind |-> "Apply",
      OwnerReferences |-> refs,
      DryRun |-> getDryRunFlag(opts.DryRun),
      Callbacks |-> IF opts.SetOwnerReferences
                    THEN ownerReferenceCallback(opts.Callbacks)
                    ELSE opts.Callbacks,
      ctx |-> "ctx" ]

\* purgeParents handing Delete the callbacks useOperator hands Apply
deleteOptionsWithApplyCallbacks(opts) ==
    [ kind |-> "Delete",
      DeletionPropagation |-> DeletePropagationForeground,
      DryRun |-> getDryRunFlag(opts.DryRun),
      Callbacks |-> IF opts.SetOwnerReferences
                    THEN ownerReferenceCallback(opts.Callbacks)
                    ELSE opts.Callbacks,
      ctx |-> "background" ]

\* purgeParents handing the ctx of Do to Delete
deleteOptionsWithDoCtx(opts) ==
    [ kind |-> "Delete",
      DeletionPropagation |-> DeletePropagationForeground,
      DryRun |-> getDryRunFlag(opts.DryRun),
      Callbacks |-> opts.Callbacks,
      ctx |-> "ctx" ]

\* the DeleteOptions purgeParents builds, and the ctx it hands to Delete with
\* them: context.Background()
deleteOptions(opts) ==
    [ kind |-> "Delete",
      DeletionPropagation |-> DeletePropagationForeground,
      DryRun |-> getDryRunFlag(opts.DryRun),
      Callbacks |-> opts.Callbacks,
      ctx |-> "background" ]

\* ------------------------------------------------------------------- init
RECURSIVE SumLen(_, _)
SumLen(f, ks) ==
    IF ks = {} THEN 0
    ELSE LET k == CHOOSE x \in ks : TRUE
         IN  Len(f[k]) + SumLen(f, ks \ {k})

\* number of operator occurrences of a forest: its parents and their children
Occurrences(f) == Cardinality(DOMAIN f) + SumLen(f, DOMAIN f)

Forests ==
    { f \in UNION { [ks -> SeqsUpTo(ChildOps, MaxChildren)] :
                      ks \in {s \in SUBSET ParentOps : Cardinality(s) <= MaxParents} } :
        Occurrences(f) <= MaxOperators }

NoItem == [name |-> "", labels |-> NilMap, ownerReferences |-> <<>>, content |-> ""]

\* the content of new1, the object applyObject got back from the server
ServerContent == "server"

\* no call of the triggers operator is in progress
TIdle ==
    /\ tOpts = NoTrigOptions
    /\ tOp = "none"
    /\ tpc = "idle"
    /\ tIdx = 0
    /\ ownerID = ""
    /\ listed = {}
    /\ wipeQueue = {}
    /\ tRefs = <<>>
    /\ tLog = <<>>
    /\ tResult = NoError
    /\ loopU = NoItem

Init ==
    /\ tItems = <<>>
    /\ remote = [n \in Names |-> Absent]
    /\ TIdle
    /\ forest \in Forests
    /\ options = NoOptions
    /\ pc = "idle"
    /\ visited = {}
    /\ cur = NilOp
    /\ childIdx = 0
    /\ references = <<>>
    /\ parentGood = <<>>
    /\ parentN = 0
    /\ role = "none"
    /\ call = NoCall
    /\ newRefs = <<>>
    /\ nReported = 0
    /\ log = <<>>
    /\ result = NoError
    /\ pendingErr = NoError
    /\ ctxDone = FALSE
    /\ ctxAtFail = FALSE
    /\ purgePending = {}

\* ---------------------------------------------------------------- actions
\* Do is entered, for the first time or after an earlier call returned. The
\* manager holds nothing but m.operators, which no step writes; everything
\* else is a local of the call and is new with it
DoStart(opts) ==
    /\ pc \in {"idle", "done"}
    /\ options' = opts
    /\ ctxDone' = FALSE
    /\ pc' = "walk"
    /\ visited' = {}
    /\ cur' = NilOp
    /\ childIdx' = 0
    /\ references' = <<>>
    /\ parentGood' = <<>>
    /\ parentN' = 0
    /\ role' = "none"
    /\ call' = NoCall
    /\ newRefs' = <<>>
    /\ nReported' = 0
    /\ log' = <<>>
    /\ result' = NoError
    /\ pendingErr' = NoError
    /\ ctxAtFail' = FALSE
    /\ purgePending' = {}
    /\ UNCHANGED forest
    /\ UNCHANGED tvars


\* Do purging on any failure, whatever OnError says
DoReturnAlwaysPurge(err) ==
    IF err # NoError
    THEN /\ pc' = "purge"
         /\ pendingErr' = err
         /\ ctxAtFail' = ctxDone
         /\ purgePending' = DOMAIN forest
         /\ UNCHANGED result
    ELSE /\ pc' = "done"
         /\ result' = err
         /\ UNCHANGED << pendingErr, ctxAtFail, purgePending >>

\* Do after manageOperators returned err
DoReturn(err) ==
    IF err # NoError /\ options.OnError = PurgeOnError
    THEN /\ pc' = "purge"
         /\ pendingErr' = err
         /\ ctxAtFail' = ctxDone
         /\ purgePending' = DOMAIN forest
         /\ UNCHANGED result
    ELSE /\ pc' = "done"
         /\ result' = err
         /\ UNCHANGED << pendingErr, ctxAtFail, purgePending >>

\* the caller of Do cancels ctx, or its deadline passes, at any moment from
\* the call of Do on (a ctx that is done at the call is one cancelled before
\* the first step of the walk); nothing in the manager reads ctx
CtxCancel ==
    /\ pc # "idle"
    /\ ~ctxDone
    /\ ctxDone' = TRUE
    /\ UNCHANGED << forest, options, pc, visited, cur, childIdx, references,
                    parentGood, parentN, role, call, newRefs, nReported, log,
                    result, pendingErr, ctxAtFail, purgePending >>
    /\ UNCHANGED tvars

\* useOperator reaches opr.Apply
InvokeApply(op, parent, idx, refs) ==
    /\ call' = applyOptions(options, refs)
    /\ log' = Append(log, Event("Apply", op, parent, idx, NoError))
    /\ newRefs' = <<>>
    /\ nReported' = 0
    /\ pc' = "applying"

\* manageOperators takes a non-nil parent from the map
ParentApply(p) ==
    /\ pc = "walk"
    /\ p \in DOMAIN forest \ visited
    /\ p # NilOp
    /\ cur' = p
    /\ role' = "parent"
    /\ parentGood' = <<>>
    /\ parentN' = 0
    /\ InvokeApply(p, p, 0, <<>>)
    /\ UNCHANGED << forest, options, visited, childIdx, references,
                    result, pendingErr, ctxAtFail, purgePending >>
    /\ UNCHANGED ctxDone
    /\ UNCHANGED tvars

\* manageOperators takes the nil parent: useOperator returns at once
ParentNil ==
    /\ pc = "walk"
    /\ NilOp \in DOMAIN forest \ visited
    /\ cur' = NilOp
    /\ role' = "parent"
    /\ parentGood' = <<>>
    /\ parentN' = 0
    /\ references' = <<>>
    /\ childIdx' = 1
    /\ pc' = "children"
    /\ UNCHANGED << forest, options, visited, call, newRefs, nReported,
                    log, result, pendingErr, ctxAtFail, purgePending >>
    /\ UNCHANGED ctxDone
    /\ UNCHANGED tvars


\* manageOperators without the error check of its inner loop: a child's error
\* is dropped and the next sibling is taken
ApplyReturnsChildErrIgnored(e, refs) ==
    /\ log' = Append(log, Event("ApplyRet", LastApply.op, LastApply.parent, LastApply.idx, e))
    /\ call' = NoCall
    /\ newRefs' = <<>>
    /\ nReported' = 0
    /\ IF e # NoError /\ role = "parent"
       THEN /\ DoReturn(e)
            /\ references' = <<>>
            /\ parentGood' = <<>>
            /\ parentN' = 0
            /\ childIdx' = 0
            /\ role' = "none"
       ELSE /\ pc' = "children"
            /\ IF role = "parent"
               THEN references' = refs /\ childIdx' = 1
               ELSE references' = references /\ childIdx' = childIdx + 1
            /\ UNCHANGED << parentGood, parentN, role, result, pendingErr, ctxAtFail, purgePending >>

\* manageOperators without the error check after the parent: the children of a
\* failed parent are applied
ApplyReturnsParentErrIgnored(e, refs) ==
    /\ log' = Append(log, Event("ApplyRet", LastApply.op, LastApply.parent, LastApply.idx, e))
    /\ call' = NoCall
    /\ newRefs' = <<>>
    /\ nReported' = 0
    /\ IF e # NoError /\ role = "child"
       THEN /\ DoReturn(e)
            /\ references' = <<>>
            /\ parentGood' = <<>>
            /\ parentN' = 0
            /\ childIdx' = 0
            /\ role' = "none"
       ELSE /\ pc' = "children"
            /\ IF role = "parent"
               THEN references' = refs /\ childIdx' = 1
               ELSE references' = references /\ childIdx' = childIdx + 1
            /\ UNCHANGED << parentGood, parentN, role, result, pendingErr, ctxAtFail, purgePending >>

\* manageOperators taking the references every useOperator call returns,
\* those of a child too, as the references for the children that follow
ApplyReturnsChildRefsKept(e, refs) ==
    /\ log' = Append(log, Event("ApplyRet", LastApply.op, LastApply.parent, LastApply.idx, e))
    /\ call' = NoCall
    /\ newRefs' = <<>>
    /\ nReported' = 0
    /\ IF e # NoError
       THEN /\ DoReturn(e)
            /\ references' = <<>>
            /\ parentGood' = <<>>
            /\ parentN' = 0
            /\ childIdx' = 0
            /\ role' = "none"
       ELSE /\ pc' = "children"
            /\ references' = refs
            /\ childIdx' = IF role = "parent" THEN 1 ELSE childIdx + 1
            /\ UNCHANGED << parentGood, parentN, role, result, pendingErr, ctxAtFail, purgePending >>

\* Apply returned e to useOperator, which returns (refs, e) to manageOperators;
\* the locals of a call that has returned are gone
ApplyReturns(e, refs) ==
    /\ log' = Append(log, Event("ApplyRet", LastApply.op, LastApply.parent, LastApply.idx, e))
    /\ call' = NoCall
    /\ newRefs' = <<>>
    /\ nReported' = 0
    /\ IF e # NoError
       THEN /\ DoReturn(e)
            /\ references' = <<>>
            /\ parentGood' = <<>>
            /\ parentN' = 0
            /\ childIdx' = 0
            /\ role' = "none"
       ELSE /\ pc' = "children"
            /\ IF role = "parent"
               THEN references' = refs /\ childIdx' = 1
               ELSE references' = references /\ childIdx' = childIdx + 1
            /\ UNCHANGED << parentGood, parentN, role, result, pendingErr, ctxAtFail, purgePending >>

\* the running operator reports one item; its Post chain accepts it
ReportItem(r) ==
    /\ pc = "applying"
    /\ nReported < MaxItems
    /\ LET out == fireCallbacks(r.v, r.err, call.Callbacks.Post, newRefs)
       IN  /\ out.err = NoError
           /\ newRefs' = out.list
    /\ nReported' = nReported + 1
    /\ parentGood' = IF role = "parent" /\ IsApplied(r)
                     THEN Append(parentGood, r.v.id)
                     ELSE parentGood
    /\ parentN' = IF role = "parent" THEN parentN + 1 ELSE parentN
    /\ UNCHANGED << forest, options, pc, visited, cur, childIdx,
                    references, role, call, log, result, pendingErr, ctxAtFail, purgePending >>
    /\ UNCHANGED ctxDone
    /\ UNCHANGED tvars

\* the running operator reports one item; the Post chain returns an error
\* and the operator returns it
ReportItemFails(r) ==
    /\ pc = "applying"
    /\ nReported < MaxItems
    /\ LET out == fireCallbacks(r.v, r.err, call.Callbacks.Post, newRefs)
       IN  /\ out.err # NoError
           /\ ApplyReturns(out.err, out.list)
    /\ UNCHANGED << forest, options, visited, cur >>
    /\ UNCHANGED ctxDone
    /\ UNCHANGED tvars

\* the running operator returns: nil, or an error of its own
OperatorReturns(e) ==
    /\ pc = "applying"
    /\ e \in {NoError, ErrOperator}
    /\ ApplyReturns(e, newRefs)
    /\ UNCHANGED << forest, options, visited, cur >>
    /\ UNCHANGED ctxDone
    /\ UNCHANGED tvars

\* manageOperators takes the next, non-nil child of cur
ChildApply ==
    /\ pc = "children"
    /\ childIdx <= Len(forest[cur])
    /\ forest[cur][childIdx] # NilOp
    /\ role' = "child"
    /\ InvokeApply(forest[cur][childIdx], cur, childIdx, references)
    /\ UNCHANGED << forest, options, visited, cur, childIdx, references,
                    parentGood, parentN, result, pendingErr, ctxAtFail, purgePending >>
    /\ UNCHANGED ctxDone
    /\ UNCHANGED tvars

\* the next child of cur is nil: useOperator returns at once
ChildNil ==
    /\ pc = "children"
    /\ childIdx <= Len(forest[cur])
    /\ forest[cur][childIdx] = NilOp
    /\ childIdx' = childIdx + 1
    /\ role' = "child"
    /\ UNCHANGED << forest, options, pc, visited, cur, references,
                    parentGood, parentN, call, newRefs, nReported, log, result,
                    pendingErr, ctxAtFail, purgePending >>
    /\ UNCHANGED ctxDone
    /\ UNCHANGED tvars

\* the child list of cur is exhausted: next iteration of the outer loop
EntryDone ==
    /\ pc = "children"
    /\ childIdx > Len(forest[cur])
    /\ visited' = visited \cup {cur}
    /\ pc' = "walk"
    /\ references' = <<>>
    /\ parentGood' = <<>>
    /\ parentN' = 0
    /\ newRefs' = <<>>
    /\ nReported' = 0
    /\ childIdx' = 0
    /\ role' = "none"
    /\ UNCHANGED << forest, options, cur, call, log, result,
                    pendingErr, ctxAtFail, purgePending >>
    /\ UNCHANGED ctxDone
    /\ UNCHANGED tvars

\* the outer loop is exhausted: manageOperators returns nil
WalkDone ==
    /\ pc = "walk"
    /\ visited = DOMAIN forest
    /\ DoReturn(NoError)
    /\ UNCHANGED << forest, options, visited, cur, childIdx, references,
                    parentGood, parentN, role, call, newRefs, nReported, log >>
    /\ UNCHANGED ctxDone
    /\ UNCHANGED tvars


\* purgeParents deleting only the parents whose entry was walked through
PurgeDeleteWalkedOnly(p, e) ==
    /\ pc = "purge"
    /\ p \in purgePending
    /\ p # NilOp
    /\ e \in {NoError, ErrDelete}
    /\ purgePending' = purgePending \ {p}
    /\ IF p \in visited
       THEN /\ call' = deleteOptions(options)
            /\ log' = Append(log, Event("Delete", p, p, 0, e))
       ELSE UNCHANGED << call, log >>
    /\ UNCHANGED << forest, options, pc, visited, cur, childIdx,
                    references, parentGood, parentN, role, newRefs, nReported, result,
                    pendingErr, ctxAtFail >>
    /\ UNCHANGED ctxDone
    /\ UNCHANGED tvars

\* purgeParents deletes a non-nil parent and drops the error
PurgeDelete(p, e) ==
    /\ pc = "purge"
    /\ p \in purgePending
    /\ p # NilOp
    /\ e \in {NoError, ErrDelete}
    /\ purgePending' = purgePending \ {p}
    /\ call' = deleteOptions(options)
    /\ log' = Append(log, Event("Delete", p, p, 0, e))
    /\ UNCHANGED << forest, options, pc, visited, cur, childIdx,
                    references, parentGood, parentN, role, newRefs, nReported, result,
                    pendingErr, ctxAtFail >>
    /\ UNCHANGED ctxDone
    /\ UNCHANGED tvars


\* purgeParents without its nil check
PurgeNilDeleted ==
    /\ pc = "purge"
    /\ NilOp \in purgePending
    /\ purgePending' = purgePending \ {NilOp}
    /\ call' = deleteOptions(options)
    /\ log' = Append(log, Event("Delete", NilOp, NilOp, 0, NoError))
    /\ UNCHANGED << forest, options, pc, visited, cur, childIdx,
                    references, parentGood, parentN, role, newRefs, nReported,
                    result, pendingErr, ctxAtFail >>
    /\ UNCHANGED ctxDone
    /\ UNCHANGED tvars

\* purgeParents skips the nil parent
PurgeSkipNil ==
    /\ pc = "purge"
    /\ NilOp \in purgePending
    /\ purgePending' = purgePending \ {NilOp}
    /\ UNCHANGED << forest, options, pc, visited, cur, childIdx,
                    references, parentGood, parentN, role, call, newRefs, nReported,
                    log, result, pendingErr, ctxAtFail >>
    /\ UNCHANGED ctxDone
    /\ UNCHANGED tvars


\* Do returning nil once the purge is through
PurgeDoneReturnsNil ==
    /\ pc = "purge"
    /\ purgePending = {}
    /\ pc' = "done"
    /\ result' = NoError
    /\ UNCHANGED << forest, options, visited, cur, childIdx, references,
                    parentGood, parentN, role, call, newRefs, nReported, log,
                    pendingErr, ctxAtFail, purgePending >>
    /\ UNCHANGED ctxDone
    /\ UNCHANGED tvars

\* purgeParents is through: Do returns err
PurgeDone ==
    /\ pc = "purge"
    /\ purgePending = {}
    /\ pc' = "done"
    /\ result' = pendingErr
    /\ UNCHANGED << forest, options, visited, cur, childIdx, references,
                    parentGood, parentN, role, call, newRefs, nReported, log,
                    pendingErr, ctxAtFail, purgePending >>
    /\ UNCHANGED ctxDone
    /\ UNCHANGED tvars

\* ------------------------------------------------------ triggers operator

\* findOwnerID without its check of the kind
findOwnerIDAnyKind(refs) ==
    IF refs = <<>>
    THEN [id |-> "", found |-> FALSE]
    ELSE [id |-> Head(refs).uid, found |-> TRUE]

\* seeks for uid of first Function kind
RECURSIVE findOwnerID(_)
findOwnerID(refs) ==
    IF refs = <<>>
    THEN [id |-> "", found |-> FALSE]
    ELSE IF Head(refs).kind = "Function"
         THEN [id |-> Head(refs).uid, found |-> TRUE]
         ELSE findOwnerID(Tail(refs))


\* contains looking at the first item only
containsFirstOnly(items, name) == Len(items) > 0 /\ items[1].name = name

contains(items, name) == \E i \in 1..Len(items) : items[i].name = name

\* mergeMap that keeps the value l already has under a key
mergeMapKeepsExisting(l, r) ==
    IF l = NilMap
    THEN r
    ELSE [k \in DOMAIN l \cup DOMAIN r |-> IF k \in DOMAIN l THEN l[k] ELSE r[k]]

mergeMap(l, r) ==
    IF l = NilMap
    THEN r
    ELSE [k \in DOMAIN l \cup DOMAIN r |-> IF k \in DOMAIN r THEN r[k] ELSE l[k]]

\* the labels a trigger of the given name is constructed with
InitLabels(n) ==
    IF n = "t1" THEN [k \in {"app", message} |-> IF k = "app" THEN "x" ELSE "stale"]
    ELSE NilMap

NewItem(n) ==
    [name |-> n, labels |-> InitLabels(n), ownerReferences |-> <<>>, content |-> "desired"]

TrigOptionsSet ==
    [ OwnerReferences : SeqsUpTo(RefSet, MaxRefs),
      DryRun : {<<>>},
      Callbacks : [Pre : {<<>>, <<"cbFail">>},
                   Post : {<<>>, <<"cbFail">>, <<"ownerRef">>}] ]

\* NewTriggersOperator over a remote store
TInit ==
    /\ tItems \in {[i \in DOMAIN ns |-> NewItem(ns[i])] : ns \in SeqsUpTo(Names, MaxTrigItems)}
    /\ remote \in [Names -> {Absent} \cup OwnerIDs]
    /\ TIdle

\* the manager is not involved
MIdle ==
    /\ forest = << >>
    /\ options = NoOptions
    /\ pc = "idle"
    /\ visited = {}
    /\ cur = NilOp
    /\ childIdx = 0
    /\ references = <<>>
    /\ parentGood = <<>>
    /\ parentN = 0
    /\ role = "none"
    /\ call = NoCall
    /\ newRefs = <<>>
    /\ nReported = 0
    /\ log = <<>>
    /\ result = NoError
    /\ pendingErr = NoError
    /\ ctxDone = FALSE
    /\ ctxAtFail = FALSE
    /\ purgePending = {}

\* what the remote store reports about a trigger
TrigIdent(n) ==
    [apiVersion |-> "eventing.knative.dev/v1alpha1", kind |-> "Trigger", name |-> n, uid |-> n]

TEvent(ev, n, e, item) ==
    [ev |-> ev, name |-> n, err |-> e, labels |-> item.labels,
     ownerReferences |-> item.ownerReferences, content |-> item.content]

\* Apply or Delete returns e
TReturn(e) ==
    /\ tpc' = "done"
    /\ tResult' = e
    /\ tIdx' = 0
    /\ wipeQueue' = {}

\* Apply is called with references that name no Function
TApplyNotFound(opts) ==
    /\ tpc = "idle"
    /\ ~findOwnerID(opts.OwnerReferences).found
    /\ tOp' = "Apply"
    /\ listed' = {}
    /\ tOpts' = opts
    /\ ownerID' = ""
    /\ tRefs' = <<>>
    /\ tLog' = <<>>
    /\ TReturn(ErrNotFound)
    /\ UNCHANGED << tItems, remote >>
    /\ UNCHANGED loopU
    /\ UNCHANGED mvars

\* Apply is called with references that name a Function: wipeRemoved is entered
TApplyBegin(opts) ==
    /\ tpc = "idle"
    /\ findOwnerID(opts.OwnerReferences).found
    /\ tOp' = "Apply"
    /\ listed' = {}
    /\ tOpts' = opts
    /\ ownerID' = findOwnerID(opts.OwnerReferences).id
    /\ tRefs' = <<>>
    /\ tLog' = <<>>
    /\ tResult' = NoError
    /\ tIdx' = 0
    /\ wipeQueue' = {}
    /\ tpc' = "wipeList"
    /\ UNCHANGED << tItems, remote >>
    /\ UNCHANGED loopU
    /\ UNCHANGED mvars

\* wipeRemoved lists the triggers labelled with ownerID
TWipeList(e) ==
    /\ tpc = "wipeList"
    /\ e \in {NoError, ErrRemote}
    /\ tLog' = Append(tLog, TEvent("list", ownerID, e, NoItem))
    /\ IF e # NoError
       THEN TReturn(e)
       ELSE /\ wipeQueue' = {n \in Names : remote[n] = ownerID}
            /\ tpc' = "wipe"
            /\ UNCHANGED << tResult, tIdx >>
    /\ listed' = IF e # NoError THEN {} ELSE {n \in Names : remote[n] = ownerID}
    /\ UNCHANGED << tItems, remote, tOpts, tOp, ownerID, tRefs >>
    /\ UNCHANGED loopU
    /\ UNCHANGED mvars

\* wipeRemoved keeps a listed trigger that the operator still holds
TWipeKeep(n) ==
    /\ tpc = "wipe"
    /\ n \in wipeQueue
    /\ contains(tItems, n)
    /\ wipeQueue' = wipeQueue \ {n}
    /\ UNCHANGED << tItems, remote, tOpts, tOp, listed, tpc, tIdx, ownerID, tRefs, tLog,
                    tResult >>
    /\ UNCHANGED loopU
    /\ UNCHANGED mvars

\* wipeRemoved deletes a listed trigger that the operator no longer holds
TWipeDelete(n, e) ==
    /\ tpc = "wipe"
    /\ n \in wipeQueue
    /\ ~contains(tItems, n)
    /\ e \in {NoError, ErrRemote}
    /\ tLog' = Append(tLog, TEvent("wipe", n, e, NoItem))
    /\ IF e # NoError
       THEN /\ TReturn(e)
            /\ UNCHANGED remote
       ELSE /\ wipeQueue' = wipeQueue \ {n}
            /\ remote' = [remote EXCEPT ![n] = Absent]
            /\ UNCHANGED << tpc, tResult, tIdx >>
    /\ UNCHANGED << tItems, tOpts, tOp, listed, ownerID, tRefs >>
    /\ UNCHANGED loopU
    /\ UNCHANGED mvars

\* wipeRemoved returns nil: the range loop over t.items starts
TWipeDone ==
    /\ tpc = "wipe"
    /\ wipeQueue = {}
    /\ tpc' = "items"
    /\ tIdx' = 1
    /\ UNCHANGED << tItems, remote, tOpts, tOp, listed, ownerID, wipeQueue, tRefs, tLog,
                    tResult >>
    /\ UNCHANGED loopU
    /\ UNCHANGED mvars

\* the loop variable u after SetOwnerReferences and SetLabels
Stamped(item) ==
    [item EXCEPT !.ownerReferences = tOpts.OwnerReferences,
                 !.labels = mergeMap(item.labels, [k \in {message} |-> ownerID])]

\* an item of the range loop of Apply: a Pre callback rejects it
TItemPreFails ==
    /\ tpc = "items"
    /\ tIdx <= Len(tItems)
    /\ LET u == Stamped(tItems[tIdx])
           pre == fireCallbacks(NotAnEntry, NoError, tOpts.Callbacks.Pre, tRefs)
       IN  /\ pre.err # NoError
           /\ tItems' = [tItems EXCEPT ![tIdx] = u]
           /\ loopU' = u
           /\ tLog' = Append(tLog, TEvent("pre", u.name, pre.err, u))
           /\ TReturn(pre.err)
    /\ UNCHANGED << remote, tOpts, tOp, listed, ownerID, tRefs >>
    /\ UNCHANGED mvars

\* the range loop of Apply going on to the next item whatever the Post
\* callbacks return
TItemApplyPostErrIgnored(e) ==
    /\ tpc = "items"
    /\ tIdx <= Len(tItems)
    /\ e \in {NoError, ErrRemote}
    /\ LET u == Stamped(tItems[tIdx])
           pre == fireCallbacks(NotAnEntry, NoError, tOpts.Callbacks.Pre, tRefs)
           statusEntry == PostStatusEntry(IF e = NoError THEN StatusTypeApplied
                                          ELSE StatusTypeApplyFailed, TrigIdent(u.name))
           post == fireCallbacks(statusEntry, e, tOpts.Callbacks.Post, tRefs)
           new1 == [u EXCEPT !.content = ServerContent]
       IN  /\ pre.err = NoError
           /\ tItems' = [tItems EXCEPT ![tIdx] = u]
           /\ loopU' = IF post.err = NoError THEN new1 ELSE u
           /\ tLog' = tLog \o << TEvent("pre", u.name, NoError, u),
                                 TEvent("apply", u.name, e, u),
                                 TEvent("post", u.name, post.err, u) >>
           /\ remote' = IF e = NoError THEN [remote EXCEPT ![u.name] = ownerID] ELSE remote
           /\ tRefs' = post.list
           /\ tIdx' = tIdx + 1
           /\ UNCHANGED << tpc, tResult, wipeQueue >>
    /\ UNCHANGED << tOpts, tOp, listed, ownerID >>
    /\ UNCHANGED mvars

\* an item of the range loop of Apply: Pre callbacks, applyObject answering e,
\* Post callbacks, SetUnstructuredContent on the loop variable. u is a copy of
\* the struct t.items[tIdx] that shares its Object map: what the setters of
\* Stamped wrote is in t.items too, while SetUnstructuredContent gives u a
\* map of its own
TItemApply(e) ==
    /\ tpc = "items"
    /\ tIdx <= Len(tItems)
    /\ e \in {NoError, ErrRemote}
    /\ LET u == Stamped(tItems[tIdx])
           pre == fireCallbacks(NotAnEntry, NoError, tOpts.Callbacks.Pre, tRefs)
           statusEntry == PostStatusEntry(IF e = NoError THEN StatusTypeApplied
                                          ELSE StatusTypeApplyFailed, TrigIdent(u.name))
           post == fireCallbacks(statusEntry, e, tOpts.Callbacks.Post, tRefs)
           new1 == [u EXCEPT !.content = ServerContent]
       IN  /\ pre.err = NoError
           /\ tItems' = [tItems EXCEPT ![tIdx] = u]
           /\ loopU' = IF post.err = NoError THEN new1 ELSE u
           /\ tLog' = tLog \o << TEvent("pre", u.name, NoError, u),
                                 TEvent("apply", u.name, e, u),
                                 TEvent("post", u.name, post.err, u) >>
           /\ remote' = IF e = NoError THEN [remote EXCEPT ![u.name] = ownerID] ELSE remote
           /\ tRefs' = post.list
           /\ IF post.err # NoError
              THEN TReturn(post.err)
              ELSE /\ tIdx' = tIdx + 1
                   /\ UNCHANGED << tpc, tResult, wipeQueue >>
    /\ UNCHANGED << tOpts, tOp, listed, ownerID >>
    /\ UNCHANGED mvars

\* the range loop of Apply is exhausted: Apply returns nil
TApplyDone ==
    /\ tpc = "items"
    /\ tIdx > Len(tItems)
    /\ TReturn(NoError)
    /\ UNCHANGED << tItems, remote, tOpts, tOp, listed, ownerID, tRefs, tLog >>
    /\ UNCHANGED loopU
    /\ UNCHANGED mvars

\* Delete is called
TDeleteBegin(opts) ==
    /\ tpc = "idle"
    /\ opts.OwnerReferences = <<>>
    /\ tOp' = "Delete"
    /\ listed' = {}
    /\ tOpts' = opts
    /\ ownerID' = ""
    /\ tRefs' = <<>>
    /\ tLog' = <<>>
    /\ tResult' = NoError
    /\ tIdx' = 1
    /\ wipeQueue' = {}
    /\ tpc' = "deleting"
    /\ UNCHANGED << tItems, remote >>
    /\ UNCHANGED loopU
    /\ UNCHANGED mvars

\* an item of the range loop of Delete: a Pre callback rejects it
TDeletePreFails ==
    /\ tpc = "deleting"
    /\ tIdx <= Len(tItems)
    /\ LET u == tItems[tIdx]
           pre == fireCallbacks(NotAnEntry, NoError, tOpts.Callbacks.Pre, tRefs)
       IN  /\ pre.err # NoError
           /\ loopU' = u
           /\ tLog' = Append(tLog, TEvent("pre", u.name, pre.err, u))
           /\ TReturn(pre.err)
    /\ UNCHANGED << tItems, remote, tOpts, tOp, listed, ownerID, tRefs >>
    /\ UNCHANGED mvars

\* an item of the range loop of Delete: Pre callbacks, deleteObject answering e,
\* Post callbacks
TDeleteItem(e) ==
    /\ tpc = "deleting"
    /\ tIdx <= Len(tItems)
    /\ e \in {NoError, ErrRemote}
    /\ LET u == tItems[tIdx]
           pre == fireCallbacks(NotAnEntry, NoError, tOpts.Callbacks.Pre, tRefs)
           state == PostStatusEntry(IF e = NoError THEN StatusTypeDeleted
                                    ELSE StatusTypeDeleteFailed, TrigIdent(u.name))
           post == fireCallbacks(state, e, tOpts.Callbacks.Post, tRefs)
       IN  /\ pre.err = NoError
           /\ loopU' = u
           /\ tLog' = tLog \o << TEvent("pre", u.name, NoError, u),
                                 TEvent("delete", u.name, e, u),
                                 TEvent("post", u.name, post.err, u) >>
           /\ remote' = IF e = NoError THEN [remote EXCEPT ![u.name] = Absent] ELSE remote
           /\ tRefs' = post.list
           /\ IF post.err # NoError
              THEN TReturn(post.err)
              ELSE /\ tIdx' = tIdx + 1
                   /\ UNCHANGED << tpc, tResult, wipeQueue >>
    /\ UNCHANGED << tItems, tOpts, tOp, listed, ownerID >>
    /\ UNCHANGED mvars

\* the range loop of Delete is exhausted: Delete returns nil
TDeleteDone ==
    /\ tpc = "deleting"
    /\ tIdx > Len(tItems)
    /\ TReturn(NoError)
    /\ UNCHANGED << tItems, remote, tOpts, tOp, listed, ownerID, tRefs, tLog >>
    /\ UNCHANGED loopU
    /\ UNCHANGED mvars

\* ------------------------------------------------------------------- next
Next ==
    \/ \E opts \in OptionsSet : DoStart(opts)
    \/ CtxCancel
    \/ \E p \in ParentOps : ParentApply(p)
    \/ ParentNil
    \/ \E r \in Reports : ReportItem(r)
    \/ \E r \in Reports : ReportItemFails(r)
    \/ \E e \in {NoError, ErrOperator} : OperatorReturns(e)
    \/ ChildApply
    \/ ChildNil
    \/ EntryDone
    \/ WalkDone
    \/ \E p \in ParentOps, e \in {NoError, ErrDelete} : PurgeDelete(p, e)
    \/ PurgeSkipNil
    \/ PurgeDone

Spec == Init /\ [][Next]_vars

\* the triggers operator on its own: one Apply or Delete call on a freshly
\* constructed operator, over any remote store
TrigNext ==
    \/ \E opts \in TrigOptionsSet : TApplyNotFound(opts)
    \/ \E opts \in TrigOptionsSet : TApplyBegin(opts)
    \/ \E e \in {NoError, ErrRemote} : TWipeList(e)
    \/ \E n \in Names : TWipeKeep(n)
    \/ \E n \in Names, e \in {NoError, ErrRemote} : TWipeDelete(n, e)
    \/ TWipeDone
    \/ TItemPreFails
    \/ \E e \in {NoError, ErrRemote} : TItemApply(e)
    \/ TApplyDone
    \/ \E opts \in TrigOptionsSet : TDeleteBegin(opts)
    \/ TDeletePreFails
    \/ \E e \in {NoError, ErrRemote} : TDeleteItem(e)
    \/ TDeleteDone

TrigInit == MIdle /\ TInit

TrigSpec == TrigInit /\ [][TrigNext]_vars

\* ---------------------------------------------------------------- claims
\* an Apply call returned an error at position i of log
FailedRet(i) == log[i].ev = "ApplyRet" /\ log[i].err # NoError

\* position i of log is an Apply call that returned without error
AppliedOk(i) ==
    /\ log[i].ev = "Apply"
    /\ i < Len(log)
    /\ log[i + 1].ev = "ApplyRet"
    /\ log[i + 1].err = NoError

\* the operator occurrences of the forest that are not nil: <<p, 0>> is the
\* parent p, <<p, k>> its k-th child
NonNilOccs ==
    {<<p, 0>> : p \in DOMAIN forest \ {NilOp}}
    \cup UNION { {<<p, k>> : k \in {m \in 1..Len(forest[p]) : forest[p][m] # NilOp}} :
                 p \in DOMAIN forest }

OpAt(o) == IF o[2] = 0 THEN o[1] ELSE forest[o[1]][o[2]]

AppliesOf(o) ==
    {j \in DOMAIN log : log[j].ev = "Apply" /\ log[j].parent = o[1] /\ log[j].idx = o[2]}

DeletesOf(p) == {j \in DOMAIN log : log[j].ev = "Delete" /\ log[j].op = p}

\* C1: once an Apply of a parent or of a child has returned an error, the Do
\* call invokes no further Apply (only purge Deletes may follow), and Do
\* returns exactly that error.
C1_FirstErrorStopsWalk ==
    \A i \in DOMAIN log :
        FailedRet(i) =>
            /\ \A j \in DOMAIN log : j > i => log[j].ev = "Delete"
            /\ pc \in {"purge", "done"}
            /\ pc = "done" => result = log[i].err

\* a first child failed under PurgeOnError; its sibling was never applied
C1_Witness ==
    /\ pc = "done"
    /\ options.OnError = PurgeOnError
    /\ \E i \in DOMAIN log :
          /\ FailedRet(i)
          /\ log[i].idx = 1
          /\ Len(forest[log[i].parent]) = 2
          /\ forest[log[i].parent][2] # NilOp
          /\ AppliesOf(<<log[i].parent, 2>>) = {}

\* C2: a child is applied only after its parent's Apply returned without error,
\* the children of a parent are applied in list order, each after the one
\* before it returned without error, and no two Apply calls overlap.
C2_ParentThenChildrenInOrder ==
    \A j \in DOMAIN log :
        log[j].ev = "Apply" =>
            /\ j > 1 => log[j - 1].ev = "ApplyRet" /\ log[j - 1].err = NoError
            /\ j < Len(log) => log[j + 1].ev = "ApplyRet"
            /\ j = Len(log) => pc = "applying"
            /\ log[j].idx > 0 =>
                 LET p == log[j].parent
                     k == log[j].idx
                 IN  /\ p \in DOMAIN forest
                     /\ k <= Len(forest[p])
                     /\ log[j].op = forest[p][k]
                     /\ p # NilOp =>
                          \E i \in 1..(j - 1) : AppliedOk(i) /\ log[i].op = p /\ log[i].idx = 0
                     /\ \A m \in 1..(k - 1) :
                          forest[p][m] # NilOp =>
                              \E i \in 1..(j - 1) :
                                  AppliedOk(i) /\ log[i].parent = p /\ log[i].idx = m
                     /\ \A i \in 1..(j - 1) :
                          log[i].ev = "Apply" /\ log[i].parent = p => log[i].idx < k

\* the second child of a parent is being applied after parent and first child
C2_Witness ==
    \E j \in DOMAIN log :
        /\ log[j].ev = "Apply"
        /\ log[j].idx = 2
        /\ log[j].parent # NilOp
        /\ forest[log[j].parent][1] # NilOp

\* C3: with OnError = PurgeOnError, when an Apply has failed, Do has by its
\* return invoked Delete exactly once on every non-nil parent of the forest,
\* whether that parent's Apply failed, succeeded or was never reached, and it
\* returns the error of the failed Apply whatever the Deletes answered.
C3_PurgeDeletesEveryParentOnce ==
    (pc = "done" /\ options.OnError = PurgeOnError /\ \E i \in DOMAIN log : FailedRet(i)) =>
        /\ \A p \in DOMAIN forest \ {NilOp} : Cardinality(DeletesOf(p)) = 1
        /\ \A i \in DOMAIN log : FailedRet(i) => result = log[i].err

\* one parent had succeeded, another failed, and a purge Delete failed too
C3_Witness ==
    /\ pc = "done"
    /\ options.OnError = PurgeOnError
    /\ \E i \in DOMAIN log : FailedRet(i) /\ log[i].idx = 0
    /\ \E p \in visited \ {NilOp} : AppliesOf(<<p, 0>>) # {}
    /\ \E j \in DOMAIN log : log[j].ev = "Delete" /\ log[j].err = ErrDelete

\* C4: Delete is invoked only after an Apply of this Do call has failed and only
\* with OnError = PurgeOnError; with StopOnError the error of the failed Apply
\* is what Do returns.
C4_DeleteOnlyOnFailureWithPurge ==
    /\ \A j \in DOMAIN log :
          log[j].ev = "Delete" =>
              /\ options.OnError = PurgeOnError
              /\ \E i \in 1..(j - 1) : FailedRet(i)
    /\ (pc = "done" /\ options.OnError = StopOnError) =>
          \A i \in DOMAIN log : FailedRet(i) => result = log[i].err

\* Do returned an error under StopOnError and deleted nothing
C4_Witness ==
    /\ pc = "done"
    /\ options.OnError = StopOnError
    /\ result # NoError
    /\ Cardinality(DOMAIN forest \ {NilOp}) = 2
    /\ \A j \in DOMAIN log : log[j].ev # "Delete"

\* C5: with SetOwnerReferences, a child of a parent whose Apply succeeded after
\* reporting N items is applied with one owner reference per item reported
\* with a nil error and a non-failed status, in reporting order, each carrying
\* that item's apiVersion, kind, name and uid.
C5_ChildrenGetHarvestedReferences ==
    (pc = "applying" /\ role = "child" /\ options.SetOwnerReferences /\ cur # NilOp) =>
        /\ Len(call.OwnerReferences) = Len(parentGood)
        /\ Len(parentGood) <= parentN
        /\ \A i \in DOMAIN parentGood :
              /\ call.OwnerReferences[i].apiVersion = parentGood[i].apiVersion
              /\ call.OwnerReferences[i].kind = parentGood[i].kind
              /\ call.OwnerReferences[i].name = parentGood[i].name
              /\ call.OwnerReferences[i].uid = parentGood[i].uid

\* the parent reported two items, one of them failed; its second child is applied
C5_Witness ==
    /\ pc = "applying"
    /\ role = "child"
    /\ options.SetOwnerReferences
    /\ cur # NilOp
    /\ childIdx = 2
    /\ parentN = 2
    /\ Len(parentGood) = 1

\* C6: without SetOwnerReferences every Apply gets the caller's callback chain
\* unchanged and an empty OwnerReferences list, whatever the parent applied.
C6_NoReferencesWithoutSetOwnerReferences ==
    (call.kind = "Apply" /\ ~options.SetOwnerReferences) =>
        /\ call.Callbacks = options.Callbacks
        /\ call.OwnerReferences = <<>>
        /\ references = <<>>
        /\ newRefs = <<>>

\* a child is applied after its parent reported applied items
C6_Witness ==
    /\ pc = "applying"
    /\ role = "child"
    /\ ~options.SetOwnerReferences
    /\ Len(parentGood) = 2

\* C7: no operator occurrence is applied twice in one Do call, and Do returns
\* nil exactly when every non-nil occurrence of the forest was applied and
\* every Apply returned nil.
C7_NilIffEveryOperatorAppliedOnce ==
    /\ \A j \in DOMAIN log :
          log[j].ev = "Apply" =>
              /\ <<log[j].parent, log[j].idx>> \in NonNilOccs
              /\ log[j].op = OpAt(<<log[j].parent, log[j].idx>>)
              /\ Cardinality(AppliesOf(<<log[j].parent, log[j].idx>>)) = 1
    /\ pc = "done" =>
          (result = NoError <=>
              \A o \in NonNilOccs : \E j \in AppliesOf(o) : AppliedOk(j))

\* Do returned nil over a forest of two parents and a child
C7_Witness ==
    /\ pc = "done"
    /\ result = NoError
    /\ Cardinality(DOMAIN forest) = 2
    /\ Cardinality(NonNilOccs) = 3

\* C8: Apply and Delete are never invoked on a nil operator; the children of a
\* nil parent are applied with no owner references; a forest without non-nil
\* operators makes Do return nil without any call.
C8_NilOperatorIsNoOp ==
    /\ \A j \in DOMAIN log : log[j].op # NilOp
    /\ (pc = "applying" /\ role = "child" /\ cur = NilOp) => call.OwnerReferences = <<>>
    /\ (pc = "done" /\ NonNilOccs = {}) => result = NoError /\ log = <<>>

\* the child of a nil parent was applied and failed, and the purge went by
C8_Witness ==
    /\ pc = "done"
    /\ NilOp \in DOMAIN forest
    /\ \E j \in DOMAIN log : log[j].ev = "Apply" /\ log[j].parent = NilOp /\ log[j].idx = 1
    /\ \E j \in DOMAIN log : log[j].ev = "Delete"

NoFunctionRef(refs) == \A i \in DOMAIN refs : refs[i].kind # "Function"

\* C9: triggers Apply with inherited references that hold no Function returns
\* the not-found error without a list, a wipe, a callback or a remote apply.
C9_ApplyWithoutOwnerDoesNothing ==
    (tOp = "Apply" /\ NoFunctionRef(tOpts.OwnerReferences)) =>
        /\ tpc = "done"
        /\ tResult = ErrNotFound
        /\ tLog = <<>>
        /\ tRefs = <<>>

\* Apply over two triggers with a Subscription as the only reference
C9_Witness ==
    /\ tOp = "Apply"
    /\ tpc = "done"
    /\ tOpts.OwnerReferences = <<SubIdent>>
    /\ Len(tItems) = 2
    /\ \E n \in Names : remote[n] # Absent
    /\ tOpts.Callbacks.Pre # <<>>

DesiredNames == {tItems[i].name : i \in DOMAIN tItems}

WipesOf(n) == {j \in DOMAIN tLog : tLog[j].ev = "wipe" /\ tLog[j].name = n}

WipedNames == {n \in Names : \E j \in WipesOf(n) : tLog[j].err = NoError}

\* C10: the wipe of triggers Apply comes before any item is applied; it deletes
\* only triggers listed under the owner id whose name the operator no longer
\* holds, and once it is through it has deleted every one of them.
C10_WipeIsSetDifference ==
    tOp = "Apply" =>
        /\ \A n \in Names : WipesOf(n) # {} => n \in listed \ DesiredNames
        /\ \A n \in Names : Cardinality(WipesOf(n)) <= 1
        /\ \A i, j \in DOMAIN tLog :
              (tLog[i].ev \in {"list", "wipe"} /\ tLog[j].ev \in {"pre", "apply", "post"}) => i < j
        /\ tpc = "wipe" => listed = {n \in Names : remote[n] = ownerID} \cup WipedNames
        /\ tpc = "items" =>
              /\ WipedNames = listed \ DesiredNames
              /\ \A n \in WipedNames : remote[n] = Absent
              /\ \A n \in listed \cap DesiredNames : remote[n] = ownerID

\* the wipe deleted one trigger and kept another that is still held
C10_Witness ==
    /\ tOp = "Apply"
    /\ tpc = "items"
    /\ WipedNames # {}
    /\ listed \cap DesiredNames # {}
    /\ tIdx > 1

\* a call made with context c got a context that is cancelled: only the ctx of
\* Do can be, context.Background() never is
CtxCancelled(c) == c = "ctx" /\ ctxDone

\* C11: no purge Delete receives a cancelled context, and when the ctx of Do
\* was already cancelled at the moment an Apply failed under PurgeOnError, Do
\* has by its return still invoked Delete on every non-nil parent.
C11_PurgeRunsOnFreshContext ==
    /\ call.kind = "Delete" => ~CtxCancelled(call.ctx)
    /\ (pc = "done" /\ ctxAtFail) =>
          \A p \in DOMAIN forest \ {NilOp} : DeletesOf(p) # {}

\* ctx was cancelled before the failure; both parents were deleted after it
C11_Witness ==
    /\ pc = "done"
    /\ ctxAtFail
    /\ call.kind = "Delete"
    /\ Cardinality(DOMAIN forest \ {NilOp}) = 2
    /\ \A p \in DOMAIN forest : DeletesOf(p) # {}

\* C12: every Apply and every purge Delete of a Do call carries the dry-run
\* flags that Options.DryRun alone determines: none when it is false, exactly
\* the one "All" marker when it is true.
C12_DryRunFlagsFollowOption ==
    call.kind \in {"Apply", "Delete"} =>
        /\ options.DryRun => call.DryRun = <<DryRunAll>>
        /\ ~options.DryRun => call.DryRun = <<>>

\* a dry-run Do call applied a parent and a child and is now purging
C12_Witness ==
    /\ options.DryRun
    /\ call.kind = "Delete"
    /\ \E j \in DOMAIN log : log[j].ev = "Apply" /\ log[j].idx = 1
    /\ Cardinality(DeletesOf(cur)) = 1

\* the status entries and errors an operator can hand to a Post callback
StatusEntries ==
    { PostStatusEntry(st, id) :
        st \in {StatusTypeApplied, StatusTypeApplyFailed, StatusTypeDeleted,
                StatusTypeDeleteFailed},
        id \in {FnIdent, SubIdent} }

IncomingErrors == {NoError, ErrRemote, ErrOperator}

\* an Apply is running whose Post chain ends with the harvesting closure,
\* bound to the accumulator newRefs
Harvesting == pc = "applying" /\ options.SetOwnerReferences

C14_UnparsableResultAborts ==
    /\ Harvesting =>
          \A e \in IncomingErrors :
              /\ ownerReferenceClosure(NotAnEntry, e, newRefs)
                   = [err |-> ErrParse, list |-> newRefs]
              /\ fireCallbacks(NotAnEntry, e, options.Callbacks.Post, newRefs).err = NoError =>
                   fireCallbacks(NotAnEntry, e, call.Callbacks.Post, newRefs)
                     = [err |-> ErrParse, list |-> newRefs]
    /\ \A i \in DOMAIN log :
          (log[i].ev = "ApplyRet" /\ log[i].err = ErrParse) =>
              /\ options.SetOwnerReferences
              /\ \A j \in DOMAIN log : j > i => log[j].ev = "Delete"
              /\ pc \in {"purge", "done"}
              /\ pc = "done" => result = ErrParse

\* a child handed its Post chain no status entry; Do purged and returned the
\* parse error
C14_Witness ==
    /\ pc = "done"
    /\ result = ErrParse
    /\ \E i \in DOMAIN log : FailedRet(i) /\ log[i].err = ErrParse /\ log[i].idx = 1
    /\ \E j \in DOMAIN log : log[j].ev = "Delete"

\* the Pre callback events of tLog: one per item the range loop took
PreEvents == SelectSeq(tLog, LAMBDA x : x.ev = "pre")

\* the callbacks of the caller's Post chain pass the error they are handed on
PostChainPasses == \A k \in DOMAIN tOpts.Callbacks.Post : tOpts.Callbacks.Post[k] # "cbFail"

FunctionRefs(refs) == {i \in DOMAIN refs : refs[i].kind = "Function"}

\* C16: every item triggers Apply hands to its Pre callbacks and to the remote
\* apply carries the whole inherited reference list as its owner references
\* and the labels it was constructed with, plus the label "ownerID" set to the
\* uid of the first inherited reference of kind Function: a value it had
\* under that key is replaced, every other label is as it was.
C16_ItemsStampedWithOwner ==
    \A j \in DOMAIN tLog :
        (tOp = "Apply" /\ tLog[j].ev \in {"pre", "apply"}) =>
            LET F == FunctionRefs(tOpts.OwnerReferences)
                before == InitLabels(tLog[j].name)
            IN  /\ tLog[j].ownerReferences = tOpts.OwnerReferences
                /\ F # {}
                /\ DOMAIN tLog[j].labels = DOMAIN before \cup {"ownerID"}
                /\ \A i \in F :
                      (\A k \in F : i <= k) =>
                          tLog[j].labels["ownerID"] = tOpts.OwnerReferences[i].uid
                /\ \A k \in DOMAIN before \ {"ownerID"} : tLog[j].labels[k] = before[k]

\* a trigger built with a label of its own and a stale ownerID label was sent
\* to the remote apply; the first inherited reference is no Function
C16_Witness ==
    /\ tOp = "Apply"
    /\ tOpts.OwnerReferences = <<SubIdent, Fn2Ident>>
    /\ \E j \in DOMAIN tLog :
          /\ tLog[j].ev = "apply"
          /\ tLog[j].name = "t1"
          /\ InitLabels("t1")["ownerID"] # Fn2Ident.uid
          /\ DOMAIN InitLabels("t1") # {"ownerID"}

\* the Post callback events of tLog: one per item that reached its remote call
PostEvents == SelectSeq(tLog, LAMBDA x : x.ev = "post")

\* C17: once triggers Apply has applied an item (its remote apply and its Post
\* callbacks returned no error), the entry of t.items for that item holds the
\* content the server returned.
C17_ItemsHoldServerContent ==
    tOp = "Apply" =>
        \A i \in DOMAIN PostEvents :
            PostEvents[i].err = NoError => tItems[i].content = ServerContent

\* C18: once the ctx of Do is cancelled, manageOperators starts no Apply on a
\* further parent or child.
C18_CancelStopsWalk ==
    [][ctxDone => ~(/\ Len(log') = Len(log) + 1
                    /\ log'[Len(log')].ev = "Apply")]_vars

\* C19: a parent is applied with no inherited references; a child is applied
\* with exactly what its own parent's Apply harvested in this Do call (nothing
\* under a nil parent or without SetOwnerReferences), whatever its siblings,
\* other entries or earlier Do calls harvested; the accumulator of an Apply
\* starts empty and holds at most one reference per item that Apply reported;
\* between two entries of the forest no reference is kept.
C19_AccumulatorPerApply ==
    /\ (pc = "applying" /\ role = "parent") => call.OwnerReferences = <<>>
    /\ (pc = "applying" /\ role = "child") =>
          /\ call.OwnerReferences = references
          /\ call.OwnerReferences =
                (IF options.SetOwnerReferences /\ cur # NilOp THEN parentGood ELSE <<>>)
    /\ pc = "applying" => Len(newRefs) <= nReported
    /\ pc = "walk" => references = <<>> /\ newRefs = <<>>

\* the second child of a parent harvests a reference of its own while it holds
\* the one reference its parent harvested; its sibling was applied before it
C19_Witness ==
    /\ pc = "applying"
    /\ role = "child"
    /\ options.SetOwnerReferences
    /\ childIdx = 2
    /\ forest[cur][1] # NilOp
    /\ Len(parentGood) = 1
    /\ Len(newRefs) = 1
    /\ newRefs # call.OwnerReferences

\* the operators that occur in the forest as children
ChildOccurrences == UNION { {forest[p][k] : k \in DOMAIN forest[p]} : p \in DOMAIN forest }

\* C20: a purge deletes the non-nil keys of the forest and nothing else: when Do
\* returns after a purge, every non-nil parent has its Delete, also one whose
\* Apply was never attempted; an operator that is only a child never gets one;
\* every Delete gets the caller's callbacks, without the harvesting closure.
C20_PurgeCoversForestKeysOnly ==
    /\ \A j \in DOMAIN log :
          log[j].ev = "Delete" =>
              /\ log[j].op \in DOMAIN forest \ {NilOp}
              /\ log[j].op \notin ChildOccurrences \ DOMAIN forest
    /\ (pc = "done" /\ pendingErr # NoError) =>
          \A p \in DOMAIN forest \ {NilOp} : Cardinality(DeletesOf(p)) >= 1
    /\ call.kind = "Delete" =>
          /\ call.Callbacks = options.Callbacks
          /\ \A k \in DOMAIN call.Callbacks.Post : call.Callbacks.Post[k] # "ownerRef"

\* a harvesting Do call failed on a child, an operator that is no key of the
\* forest; the purge deleted a parent that had never been applied
C20_Witness ==
    /\ pc = "done"
    /\ options.SetOwnerReferences
    /\ call.kind = "Delete"
    /\ \E i \in DOMAIN log :
          /\ FailedRet(i)
          /\ log[i].idx = 1
          /\ log[i].op \notin DOMAIN forest
    /\ \E p \in DOMAIN forest \ {NilOp} : AppliesOf(<<p, 0>>) = {} /\ DeletesOf(p) # {}

====
